---- MODULE Spec2Model ----
(***************************************************************************)
(* Model of the somnia-auditor `audit` command: file discovery, the        *)
(* Slither and Solhint subprocess runs of every discovered file, the       *)
(* optional AI summary and the Markdown report.                            *)
(*                                                                         *)
(* A path is a sequence of components relative to the working directory;   *)
(* a file system is the set of the paths of its regular files.             *)
(***************************************************************************)
EXTENDS Integers, Sequences, FiniteSets, TLC

\* ------------------------------------------------------------------------
\* Bounds
\* ------------------------------------------------------------------------
\* most detectors in one Slither JSON document, most issues in one Solhint one
MaxDetectors == 1
MaxIssues == 1
\* most files in an all_results handed to generate_report on its own
MaxFiles == 2

\* ------------------------------------------------------------------------
\* file_discovery.py
\* ------------------------------------------------------------------------
DEFAULT_EXCLUDE_DIRS ==
    {"lib", "node_modules", ".git", "cache", "out", "artifacts", ".cache"}

\* The entry names of the modelled trees, in the order os.listdir gives them.
Names ==
    <<"A.sol", "README.md", "notes.txt", "B.sol", "C.sol", "D.sol",
      "src", "contracts", "lib", "node_modules">>

\* str.endswith('.sol') on the entry names above.
EndsWithSol(name) == name \in {"A.sol", "B.sol", "C.sol", "D.sol"}

\* The file systems the command is run in (regular files, relative to cwd).
FS1 == { <<"README.md">>, <<"src", "B.sol">>, <<"lib", "C.sol">> }
FS2 == { <<"A.sol">>, <<"README.md">>, <<"src", "notes.txt">> }
FS3 == { <<"README.md">>, <<"contracts", "node_modules", "D.sol">> }
FileSystems == {FS1, FS2, FS3}

\* os.path.normpath on the modelled paths: "." components are dropped.
NormPath(p) ==
    LET NotDot(c) == c # "." IN SelectSeq(p, NotDot)

IsPrefix(p, q) == Len(p) <= Len(q) /\ SubSeq(q, 1, Len(p)) = p

IsFile(fs, p) == NormPath(p) \in fs

IsDir(fs, p) ==
    \/ NormPath(p) = <<>>
    \/ \E f \in fs : Len(f) > Len(NormPath(p)) /\ IsPrefix(NormPath(p), f)

Exists(fs, p) == IsFile(fs, p) \/ IsDir(fs, p)

\* _should_exclude_path(root, exclude_dirs)
_should_exclude_path(root, exclude_dirs) ==
    LET path_parts == NormPath(root)
    IN \E i \in 1..Len(path_parts) : path_parts[i] \in exclude_dirs

RECURSIVE ConcatAll(_)
ConcatAll(seqs) ==
    IF seqs = <<>> THEN <<>> ELSE Head(seqs) \o ConcatAll(Tail(seqs))

\* The loop over os.walk(top) of find_sol_files: top-down, the sub-directory
\* list pruned in place unless include_libs, excluded roots skipped.
RECURSIVE Walk(_, _, _, _)
Walk(fs, root, exclude_dirs, include_libs) ==
    LET IsFileHere(n) == IsFile(fs, root \o <<n>>)
        IsDirHere(n) == IsDir(fs, root \o <<n>>) /\ ~IsFile(fs, root \o <<n>>)
        Kept(n) == IsDirHere(n) /\ (include_libs \/ n \notin exclude_dirs)
        files == SelectSeq(Names, IsFileHere)
        dirs == SelectSeq(Names, Kept)
        IsSol(n) == EndsWithSol(n)
        solHere == SelectSeq(files, IsSol)
        here == IF _should_exclude_path(root, exclude_dirs)
                THEN <<>>
                ELSE [i \in 1..Len(solHere) |-> root \o <<solHere[i]>>]
    IN here \o ConcatAll([i \in 1..Len(dirs) |->
                            Walk(fs, root \o <<dirs[i]>>, exclude_dirs, include_libs)])

\* glob.glob(os.path.join(dir, '*.sol')); dir = <<>> is glob.glob('*.sol')
Glob(fs, dir) ==
    LET Match(n) == EndsWithSol(n) /\ Exists(fs, dir \o <<n>>)
        hits == SelectSeq(Names, Match)
    IN [i \in 1..Len(hits) |-> dir \o <<hits[i]>>]

\* find_sol_files(path, recursive, include_libs)
find_sol_files(fs, path, recursive, include_libs) ==
    LET exclude_dirs == IF include_libs THEN {} ELSE DEFAULT_EXCLUDE_DIRS
        project == ConcatAll(
            [i \in 1..2 |->
                LET dir_name == <<(<<"src", "contracts">>)[i]>>
                IN IF Exists(fs, dir_name)
                   THEN Walk(fs, dir_name, exclude_dirs, include_libs)
                   ELSE <<>>])
    IN IF IsFile(fs, path) /\ EndsWithSol(path[Len(path)])
       THEN <<path>>
       ELSE IF IsDir(fs, path)
       THEN IF recursive
            THEN Walk(fs, path, exclude_dirs, include_libs)
            ELSE Glob(fs, path)
       ELSE IF project # <<>> THEN project ELSE Glob(fs, <<>>)

\* The PATH arguments tried: click.Path(exists=True) rejects the others.
PathArgs ==
    { <<".">>, <<"src">>, <<"lib">>, <<"contracts">>, <<"A.sol">>,
      <<"lib", "C.sol">>, <<"README.md">>, <<"contracts", "node_modules">>,
      <<".", "lib">> }

\* ------------------------------------------------------------------------
\* Values shared by the runners: JSON documents, process output, exceptions
\* ------------------------------------------------------------------------
JNull == [t |-> "null"]
JList(s) == [t |-> "list", v |-> s]
JDict(f) == [t |-> "dict", v |-> f]
EmptyDict == JDict(<<>>)

\* Python truth value of a parsed JSON document (`not data`)
Truthy(x) ==
    CASE x.t = "null" -> FALSE
      [] x.t = "list" -> x.v # <<>>
      [] x.t = "dict" -> DOMAIN x.v # {}

\* dict.get(key, default)
Get(d, key, default) == IF key \in DOMAIN d.v THEN d.v[key] ELSE default

\* Captured output: plain text, or the text of a JSON document.
Text(s) == [k |-> "text", s |-> s]
JsonText(doc) == [k |-> "json", doc |-> doc]

\* The test without the strip(): whitespace counts as output.
StripNonEmpty_no_strip(out) == out.k = "json" \/ out.s # ""

\* str.strip() of the output is non-empty
StripNonEmpty(out) == out.k = "json" \/ out.s \notin {"", " "}

\* truth value of the raw output string
NonEmpty(out) == out.k = "json" \/ out.s # ""

\* json.loads(out): the document, or JSONDecodeError
JsonLoads(out) ==
    IF out.k = "json" THEN [ok |-> TRUE, doc |-> out.doc]
    ELSE [ok |-> FALSE, doc |-> JNull]

\* A finished (or failed) subprocess.run call.
Completed(rc, out, err) ==
    [raised |-> "none", returncode |-> rc, stdout |-> out, stderr |-> err]
Raised(exc) ==
    [raised |-> exc, returncode |-> 0, stdout |-> Text(""), stderr |-> Text("")]

\* ------------------------------------------------------------------------
\* slither_runner.py
\* ------------------------------------------------------------------------
\* Words of detector descriptions and their str.lower().
Lower(w) ==
    CASE w = "Reentrancy" -> "reentrancy"
      [] w = "Gas" -> "gas"
      [] OTHER -> w

\* `kw in description.lower()` on descriptions given as word sequences
Contains(description, kw) ==
    \E i \in 1..Len(description) : Lower(description[i]) = kw

\* The tests in the other order: gas and optimization win over reentrancy.
_categorize_issue_gas_first(description) ==
    IF Contains(description, "gas") \/ Contains(description, "optimization")
    THEN "inefficiency"
    ELSE IF Contains(description, "reentrancy") \/ Contains(description, "vulnerability")
    THEN "vulnerability"
    ELSE "best_practice"

_categorize_issue(description) ==
    IF Contains(description, "reentrancy") \/ Contains(description, "vulnerability")
    THEN "vulnerability"
    ELSE IF Contains(description, "gas") \/ Contains(description, "optimization")
    THEN "inefficiency"
    ELSE "best_practice"

\* _parse_slither_error: the exit code and the detail line chosen from the
\* first pattern that occurs in `stderr or stdout`.
_parse_slither_error(stderr, stdout, returncode) ==
    LET error_text == IF NonEmpty(stderr) THEN stderr ELSE stdout
        detail ==
            IF error_text.k = "text" /\ error_text.s = "Compilation error"
            THEN "Compilation Error"
            ELSE IF error_text.k = "text" /\ error_text.s = "solc missing"
            THEN "Solidity compiler issue - check compiler version"
            ELSE IF NonEmpty(stderr) THEN "stderr lines"
            ELSE IF NonEmpty(stdout) THEN "stdout line"
            ELSE ""
    IN [msg |-> "Slither exited with code", code |-> returncode, detail |-> detail]

\* An empty result that lacks one of the three lists.
EmptyFindings_two_lists == [vulnerabilities |-> <<>>, inefficiencies |-> <<>>]

EmptyFindings ==
    [vulnerabilities |-> <<>>, inefficiencies |-> <<>>, best_practices |-> <<>>]

\* a message given as plain text
Msg(text) == [msg |-> text]

Error(msg) == [error |-> msg]

\* The findings of one detector: one per element.
DetectorFindings(file_path, detector) ==
    LET description == Get(detector, "description", <<>>)
        impact == Get(detector, "impact", "Info")
        elements == Get(detector, "elements", <<>>)
    IN [i \in 1..Len(elements) |->
          LET source_mapping == Get(elements[i], "source_mapping", EmptyDict)
          IN [issue |-> description,
              severity |-> impact,
              location |-> <<Get(source_mapping, "filename_short", file_path),
                             Get(source_mapping, "lines", "?")>>,
              category |-> _categorize_issue(description)]]

\* Lines 144-174: the parsed document turned into the three lists.
\* A document whose shape makes .get fail raises AttributeError, which the
\* last handler of run_slither turns into an error result.
SlitherParse(file_path, data) ==
    IF ~Truthy(data) THEN EmptyFindings
    ELSE IF data.t # "dict" THEN Error(Msg("Unexpected error running Slither"))
    ELSE LET res == Get(data, "results", EmptyDict)
         IN IF res.t # "dict" THEN Error(Msg("Unexpected error running Slither"))
            ELSE LET detectors == Get(res, "detectors", JList(<<>>))
                 IN IF detectors.t # "list"
                    THEN Error(Msg("Unexpected error running Slither"))
                    ELSE LET results == ConcatAll(
                                 [i \in 1..Len(detectors.v) |->
                                     DetectorFindings(file_path, detectors.v[i])])
                             IsV(r) == r.category = "vulnerability"
                             IsI(r) == r.category = "inefficiency"
                             IsB(r) == r.category = "best_practice"
                         IN [vulnerabilities |-> SelectSeq(results, IsV),
                             inefficiencies |-> SelectSeq(results, IsI),
                             best_practices |-> SelectSeq(results, IsB)]

\* The first run's exit code sends run_slither to the run without --json.
SlitherNeedsAlt(first) ==
    first.raised = "none" /\ first.returncode \notin {0, 255}

SlitherWarning ==
    [vulnerabilities |-> <<>>, inefficiencies |-> <<>>, best_practices |-> <<>>,
     warning |-> "Slither analysis completed but JSON parsing failed. Check output manually."]

\* The branch taking only exit code 0 of the second run as a success.
SlitherAfterAlt_zero_only(first, alt) ==
    LET error_msg == _parse_slither_error(first.stderr, first.stdout, first.returncode)
    IN IF alt.raised = "none" /\ alt.returncode = 0
       THEN SlitherWarning
       ELSE Error(error_msg)

\* Lines 118-142: what the branch for other exit codes returns.
SlitherAfterAlt(first, alt) ==
    LET error_msg == _parse_slither_error(first.stderr, first.stdout, first.returncode)
    IN IF alt.raised = "none" /\ alt.returncode \in {0, 255}
       THEN SlitherWarning
       ELSE IF alt.raised \in {"none", "TimeoutExpired", "FileNotFoundError"}
       THEN Error(error_msg)
       ELSE Error(Msg("Unexpected error running Slither"))

\* run_slither(file_path) as a function of the outcome of the JSON run and,
\* where the code makes it, of the run without --json.
run_slither(file_path, first, alt) ==
    IF first.raised = "TimeoutExpired"
    THEN Error(Msg("Slither analysis timed out (>5 minutes)."))
    ELSE IF first.raised = "FileNotFoundError"
    THEN Error(Msg("Slither not found. Please install it: pip install slither-analyzer"))
    ELSE IF first.raised # "none"
    THEN Error(Msg("Unexpected error running Slither"))
    ELSE IF first.returncode = 0
    THEN IF StripNonEmpty(first.stdout)
         THEN IF JsonLoads(first.stdout).ok
              THEN SlitherParse(file_path, JsonLoads(first.stdout).doc)
              ELSE EmptyFindings
         ELSE EmptyFindings
    ELSE IF first.returncode = 255
    THEN IF StripNonEmpty(first.stdout)
         THEN IF JsonLoads(first.stdout).ok
              THEN SlitherParse(file_path, JsonLoads(first.stdout).doc)
              ELSE Error(_parse_slither_error(first.stderr, first.stdout,
                                              first.returncode))
         ELSE EmptyFindings
    ELSE SlitherAfterAlt(first, alt)

\* ------------------------------------------------------------------------
\* solhint_runner.py
\* ------------------------------------------------------------------------
\* Directories holding one of the project-root indicators (.git, package.json,
\* foundry.toml, hardhat.config.js, hardhat.config.ts): the working directory.
ProjectIndicators == { <<>> }

\* The search that looks in the file's own directory only.
Ancestors_self_only(dir) == <<dir>>

\* [path] + list(path.parents): the directory itself first, the top last
RECURSIVE Ancestors(_)
Ancestors(dir) ==
    IF dir = <<>> THEN << <<>> >>
    ELSE <<dir>> \o Ancestors(SubSeq(dir, 1, Len(dir) - 1))

\* the directory of a file path (Path.resolve().parent)
ParentDir(file_path) ==
    LET p == NormPath(file_path) IN SubSeq(p, 1, Len(p) - 1)

\* first element of a sequence satisfying membership in a set, or none
RECURSIVE FirstIn(_, _)
FirstIn(seq, S) ==
    IF seq = <<>> THEN [found |-> FALSE, dir |-> <<>>]
    ELSE IF Head(seq) \in S THEN [found |-> TRUE, dir |-> Head(seq)]
    ELSE FirstIn(Tail(seq), S)

\* _find_project_root(start_path)
_find_project_root(file_path) ==
    LET hit == FirstIn(Ancestors(ParentDir(file_path)), ProjectIndicators)
    IN IF hit.found THEN hit.dir ELSE ParentDir(file_path)

\* _find_or_create_solhint_config(start_path), given the directories that
\* hold a .solhint.json (cfgs: directory -> content) and the writable ones:
\* the path returned (none when both writes fail) and the configs afterwards.
_find_or_create_solhint_config(file_path, cfgs, writable) ==
    LET dir == ParentDir(file_path)
        hit == FirstIn(Ancestors(dir), DOMAIN cfgs)
        project_root == _find_project_root(file_path)
        Put(d) == [x \in DOMAIN cfgs \cup {d} |->
                      IF x = d THEN "default" ELSE cfgs[x]]
    IN IF hit.found
       THEN [config_path |-> <<hit.dir>>, configs |-> cfgs]
       ELSE IF project_root \in writable
       THEN [config_path |-> <<project_root>>, configs |-> Put(project_root)]
       ELSE IF dir \in writable
       THEN [config_path |-> <<dir>>, configs |-> Put(dir)]
       ELSE [config_path |-> <<>>, configs |-> cfgs]

\* str.capitalize() of the severities Solhint reports
Capitalize(s) ==
    CASE s = "warning" -> "Warning"
      [] s = "info" -> "Info"
      [] s = "ERROR" -> "Error"
      [] OTHER -> s

\* Lines 131-151: the parsed document turned into {"best_practices": [...]};
\* a document that is neither a list nor a dict raises AttributeError on
\* .get, which run_solhint does not catch.
SolhintParse(file_path, findings) ==
    IF findings.t \notin {"list", "dict"} THEN [raises |-> "AttributeError"]
    ELSE LET issues == IF findings.t = "list" THEN findings
                       ELSE Get(findings, "issues", JList(<<>>))
         IN [best_practices |->
               [i \in 1..Len(issues.v) |->
                  [issue |-> Get(issues.v[i], "message", "Unknown issue"),
                   severity |-> Capitalize(Get(issues.v[i], "severity", "info")),
                   location |-> <<Get(issues.v[i], "file", file_path),
                                  Get(issues.v[i], "line", "?"),
                                  Get(issues.v[i], "column", "?")>>,
                   category |-> "best_practice"]]]

\* `"config" in stderr.lower()` and the two phrases, on the modelled texts
HasConfig(s) ==
    s \in {"Failed to load config file", "Cannot read CONFIG", "invalid config"}
HasFailedToLoad(s) == s \in {"Failed to load config file", "failed to load plugin"}
HasCannotRead(s) == s \in {"Cannot read CONFIG"}

\* The condition of line 156 on the stderr of the failed first run.
IsConfigError(stderr) ==
    HasConfig(stderr.s) /\ (HasFailedToLoad(stderr.s) \/ HasCannotRead(stderr.s))

\* The first run failed in the way that makes run_solhint run Solhint again.
SolhintNeedsRetry(first) ==
    first.raised = "none" /\ first.returncode # 0 /\ IsConfigError(first.stderr)

\* Lines 194-197: the error built from the CalledProcessError of a run.
SolhintFailed(run) ==
    Error([msg |-> "Solhint failed", code |-> run.returncode,
           stderr |-> run.stderr.s])

\* run_solhint(file_path) as a function of the outcome of the first run and,
\* where the code makes it, of the retry from the file's directory.
run_solhint(file_path, first, retry) ==
    IF first.raised = "FileNotFoundError"
    THEN Error(Msg("Solhint not found. Please install it: npm install -g solhint"))
    ELSE IF first.raised # "none" THEN [raises |-> first.raised]
    ELSE IF first.returncode = 0
    THEN IF JsonLoads(first.stdout).ok
         THEN SolhintParse(file_path, JsonLoads(first.stdout).doc)
         ELSE Error(Msg("Failed to parse Solhint JSON output"))
    ELSE IF ~IsConfigError(first.stderr) THEN SolhintFailed(first)
    ELSE IF retry.raised # "none" THEN [raises |-> retry.raised]
    ELSE IF retry.returncode # 0 THEN SolhintFailed(first)
    ELSE IF ~JsonLoads(retry.stdout).ok THEN SolhintFailed(first)
    ELSE SolhintParse(file_path, JsonLoads(retry.stdout).doc)

\* ------------------------------------------------------------------------
\* report_generator.py
\* ------------------------------------------------------------------------
\* str(n) of a natural number: its decimal digits
RECURSIVE Str(_)
Str(n) == IF n < 10 THEN <<n>> ELSE Str(n \div 10) \o <<n % 10>>

\* os.path.basename
Basename(file_path) == file_path[Len(file_path)]

\* len(result.get(key, []))
Count(result, key) == IF key \in DOMAIN result THEN Len(result[key]) ELSE 0

RECURSIVE SumSeq(_)
SumSeq(ns) == IF ns = <<>> THEN 0 ELSE Head(ns) + SumSeq(Tail(ns))

IssueLines(issues) ==
    [i \in 1..Len(issues) |->
        <<"- **", issues[i].severity, "**: ", issues[i].issue, " at ",
          issues[i].location>>]

\* category.capitalize()
CategoryTitle(category) ==
    CASE category = "vulnerabilities" -> "### Vulnerabilities"
      [] category = "inefficiencies" -> "### Inefficiencies"
      [] category = "best_practices" -> "### Best_practices"

CategoryLines(slither_results, category) ==
    LET issues == IF category \in DOMAIN slither_results
                  THEN slither_results[category] ELSE <<>>
    IN IF issues # <<>>
       THEN << <<CategoryTitle(category)>> >> \o IssueLines(issues) \o << <<"">> >>
       ELSE <<>>

\* Lines 33-67: the section of one entry of all_results.
FileSection(entry) ==
    << <<"## ", Basename(entry.file_path)>> >>
    \o (IF "error" \in DOMAIN entry.slither
        THEN << <<"### Slither Error">>, <<"", entry.slither.error>>, <<"">> >>
        ELSE CategoryLines(entry.slither, "vulnerabilities")
             \o CategoryLines(entry.slither, "inefficiencies")
             \o CategoryLines(entry.slither, "best_practices"))
    \o (IF "error" \in DOMAIN entry.solhint
        THEN << <<"### Solhint Error">>, <<"", entry.solhint.error>>, <<"">> >>
        ELSE IF Count(entry.solhint, "best_practices") > 0
        THEN << <<"### Best Practices (Solhint)">> >>
             \o IssueLines(entry.solhint.best_practices) \o << <<"">> >>
        ELSE <<>>)
    \o << <<"">> >>

\* Lines 70-72: sum of len(r[0].get(category, [])) over all_results
SlitherTotal(all_results, category) ==
    SumSeq([i \in 1..Len(all_results) |-> Count(all_results[i].slither, category)])

\* A total that forgets the linter's findings.
BestPracticesTotal_slither_only(all_results) ==
    SumSeq([i \in 1..Len(all_results) |->
              Count(all_results[i].slither, "best_practices")])

\* Lines 76-79: best practices of both tools
BestPracticesTotal(all_results) ==
    SumSeq([i \in 1..Len(all_results) |->
              Count(all_results[i].slither, "best_practices")
              + Count(all_results[i].solhint, "best_practices")])

\* generate_report(all_results, sol_files, output_file): the returned summary
\* and the lines written to the report file.  all_results is the dict in
\* insertion order: a sequence of [file_path, slither, solhint].
generate_report(all_results, sol_files, output_file) ==
    LET total_vulns == SlitherTotal(all_results, "vulnerabilities")
        total_ineff == SlitherTotal(all_results, "inefficiencies")
        total_bp == BestPracticesTotal(all_results)
        total_issues == total_vulns + total_ineff + total_bp
        report_file == IF output_file = "None" THEN "audit-report-<now>.md"
                       ELSE output_file
    IN [summary |->
            [total_issues |-> total_issues,
             vulnerabilities |-> total_vulns,
             inefficiencies |-> total_ineff,
             best_practices |-> total_bp,
             report_file |-> report_file],
        lines |->
            << <<"# Audit Report - <now>">>,
               <<"**Files Scanned**: ", Str(Len(sol_files)), sol_files>>,
               <<"**Mode**: Offline (Slither, Solhint)">> >>
            \o ConcatAll([i \in 1..Len(all_results) |-> FileSection(all_results[i])])
            \o << <<"## Summary">>,
                  <<"- Total Issues: ", Str(total_issues)>>,
                  <<"- Vulnerabilities: ", Str(total_vulns)>>,
                  <<"- Inefficiencies: ", Str(total_ineff)>>,
                  <<"- Best Practices: ", Str(total_bp)>> >>]

\* The parameters generate_report declares (lines 8-12) and the keyword
\* arguments the call of cli.py line 100 passes besides the two positional.
GenerateReportParams == {"all_results", "sol_files", "output_file"}
AuditReportKeywords == {"output_file", "ai_summary"}

\* all_results[file_path] = (slither_results, solhint_results)
DictSet(all_results, file_path, slither_results, solhint_results) ==
    LET entry == [file_path |-> file_path, slither |-> slither_results,
                  solhint |-> solhint_results]
    IN IF \E i \in 1..Len(all_results) : all_results[i].file_path = file_path
       THEN [i \in 1..Len(all_results) |->
               IF all_results[i].file_path = file_path THEN entry
               ELSE all_results[i]]
       ELSE Append(all_results, entry)

\* ------------------------------------------------------------------------
\* What the external tools and the environment can do
\* ------------------------------------------------------------------------
\* sequences over S of length at most n
SeqsUpTo(S, n) == UNION { [1..k -> S] : k \in 0..n }

Element(with_mapping) ==
    IF with_mapping
    THEN JDict([source_mapping |->
                  JDict([filename_short |-> <<"Token.sol">>, lines |-> "12"])])
    ELSE EmptyDict

Detectors ==
    { JDict([description |-> <<"Reentrancy", "in", "withdraw">>,
             impact |-> "High", elements |-> <<Element(TRUE)>>]),
      JDict([description |-> <<"Gas", "optimization">>,
             elements |-> <<Element(FALSE)>>]),
      JDict([description |-> <<"unused", "variable">>,
             impact |-> "Low", elements |-> <<Element(TRUE), Element(FALSE)>>]),
      JDict([description |-> <<"reentrancy", "wastes", "gas">>,
             impact |-> "Medium", elements |-> <<Element(FALSE)>>]),
      JDict([description |-> <<"vulnerability", "in", "optimization">>,
             elements |-> <<Element(TRUE)>>]),
      JDict([description |-> <<"naming", "convention">>,
             impact |-> "Informational", elements |-> <<>>]) }

SlitherDocs ==
    { JNull, EmptyDict, JList(<<JNull>>),
      JDict([success |-> JNull]),
      JDict([results |-> JList(<<>>)]) }
    \cup { JDict([results |-> JDict([detectors |-> JList(ds)])]) :
             ds \in SeqsUpTo(Detectors, MaxDetectors) }

SlitherStdouts ==
    { Text(""), Text(" "), Text("garbage") } \cup { JsonText(d) : d \in SlitherDocs }

SlitherStderrs == { Text(""), Text("Compilation error"), Text("Traceback") }

SlitherExitCodes == {0, 1, 2, 255}

SlitherOutcomes ==
    { Raised("TimeoutExpired"), Raised("FileNotFoundError") }
    \cup { Completed(rc, out, err) :
             rc \in SlitherExitCodes, out \in SlitherStdouts, err \in SlitherStderrs }

\* the run without --json: only the exit code and the exceptions are looked at
SlitherAltOutcomes ==
    { Raised("TimeoutExpired"), Raised("FileNotFoundError"), Raised("OSError") }
    \cup { Completed(rc, Text("garbage"), Text("")) : rc \in SlitherExitCodes }

SolhintIssues ==
    { JDict([message |-> "Explicitly mark visibility", severity |-> "warning",
             line |-> "3", column |-> "5"]),
      JDict([severity |-> "ERROR", file |-> <<"Token.sol">>]) }

SolhintDocs ==
    { JNull, EmptyDict }
    \cup { JList(is) : is \in SeqsUpTo(SolhintIssues, MaxIssues) }
    \cup { JDict([issues |-> JList(is)]) : is \in SeqsUpTo(SolhintIssues, MaxIssues) }

SolhintStdouts == { Text(""), Text("garbage") } \cup { JsonText(d) : d \in SolhintDocs }

SolhintStderrs ==
    { Text(""), Text("Failed to load config file"), Text("Cannot read CONFIG"),
      Text("invalid config"), Text("failed to load plugin") }

SolhintExitCodes == {0, 1}

\* check=True: a non-zero exit code is a CalledProcessError carrying stderr
SolhintOutcomes ==
    { Raised("FileNotFoundError") }
    \cup { Completed(0, out, Text("")) : out \in SolhintStdouts }
    \cup { Completed(1, Text(""), err) : err \in SolhintStderrs }

SolhintRetryOutcomes ==
    { Raised("FileNotFoundError") }
    \cup { Completed(0, out, Text("")) : out \in SolhintStdouts }
    \cup { Completed(1, Text(""), Text("invalid config")) }

\* ------------------------------------------------------------------------
\* ai_assistant.py
\* ------------------------------------------------------------------------
\* fmt_issue(src, issue): the parts of the line
fmt_issue(src, issue) ==
    [severity |-> IF "severity" \in DOMAIN issue THEN issue.severity ELSE "Info",
     issue |-> IF "issue" \in DOMAIN issue THEN issue.issue ELSE <<>>,
     src |-> src,
     location |-> IF "location" \in DOMAIN issue THEN issue.location ELSE <<>>]

\* the lines one result contributes: its error, or its issues by category
PromptLines(src, tool, result, cats) ==
    IF "error" \in DOMAIN result
    THEN << [tool |-> tool, src |-> src, error |-> result.error] >>
    ELSE ConcatAll([c \in 1..Len(cats) |->
                      IF cats[c] \in DOMAIN result
                      THEN [n \in 1..Len(result[cats[c]]) |->
                               fmt_issue(src, result[cats[c]][n])]
                      ELSE <<>>])

\* _build_prompt(all_results, sol_files): the system message is a fixed
\* text, the user message lists the files' names and the findings
_build_prompt(results, files) ==
    << [role |-> "system"],
       [role |-> "user",
        files |-> [i \in 1..Len(files) |-> Basename(files[i])],
        lines |-> ConcatAll([i \in 1..Len(results) |->
                    PromptLines(Basename(results[i].file_path), "Slither",
                                results[i].slither,
                                <<"vulnerabilities", "inefficiencies",
                                  "best_practices">>)
                    \o PromptLines(Basename(results[i].file_path), "Solhint",
                                   results[i].solhint, <<"best_practices">>)])] >>

\* str.strip() of the texts a completion carries
Strip(text) ==
    CASE text = " Looks fine. " -> "Looks fine."
      [] text = " " -> ""
      [] OTHER -> text

\* f"AI summary failed: {str(e)}" for the exceptions a request ends with
FailedText(exc) ==
    CASE exc = "APIConnectionError" -> "AI summary failed: Connection error."
      [] exc = "RateLimitError" -> "AI summary failed: Rate limit reached"
      [] exc = "IndexError" -> "AI summary failed: list index out of range"

\* what client.chat.completions.create and the reading of its result do
HasContent(text) == [k |-> "content", text |-> text]
NoContent == [k |-> "none"]
NoChoices == [k |-> "no_choices"]
RequestRaises(exc) == [k |-> "raises", exc |-> exc]

\* Lines 85-95: the text returned for the outcome of the request
AiReply(response) ==
    CASE response.k = "content" -> Strip(response.text)
      [] response.k = "none" -> ""
      [] response.k = "no_choices" -> FailedText("IndexError")
      [] response.k = "raises" -> FailedText(response.exc)

\* The key taken from the environment even when --api-key is given.
ApiKeyUsed_env_first(key_arg, env_key) ==
    IF env_key \notin {"None", ""} THEN env_key ELSE key_arg

\* api_key or os.environ.get("OPENAI_API_KEY")
ApiKeyUsed(key_arg, env_key) ==
    IF key_arg \notin {"None", ""} THEN key_arg ELSE env_key

\* generate_ai_summary(all_results, sol_files, model, api_key) in the
\* environment env: the text returned, or the exception let through, and the
\* requests sent to the API.
generate_ai_summary(results, files, model_arg, key_arg, env) ==
    IF ~env.sdk
    THEN [text |-> "AI summary unavailable: OpenAI SDK not installed.",
          requests |-> <<>>]
    ELSE LET key == ApiKeyUsed(key_arg, env.env_key)
         IN IF key \in {"None", ""}
            THEN [text |-> "AI summary unavailable: OPENAI_API_KEY is not set.",
                  requests |-> <<>>]
            ELSE IF env.client # "ok"
            THEN [raises |-> env.client, requests |-> <<>>]
            ELSE [text |-> AiReply(env.response),
                  requests |-> << [api_key |-> key, model |-> model_arg,
                                   messages |-> _build_prompt(results, files)] >>]

\* outcomes of the request
AiResponses ==
    { HasContent("### Critical: fix reentrancy in withdraw"),
      HasContent(" Looks fine. "), HasContent(" "), NoContent, NoChoices,
      RequestRaises("APIConnectionError"), RequestRaises("RateLimitError") }

\* the process environment generate_ai_summary runs in: whether openai can
\* be imported, OPENAI_API_KEY, whether OpenAI(api_key=key) can be built,
\* and the outcome of the request
AiEnvs ==
    [sdk : BOOLEAN, env_key : {"None", "", "sk-env"},
     client : {"ok", "ImportError"}, response : AiResponses]

AuditAiEnvs ==
    { [sdk |-> TRUE, env_key |-> "None", client |-> "ok", response |-> NoContent],
      [sdk |-> TRUE, env_key |-> "sk-env", client |-> "ok",
       response |-> HasContent("### Critical: fix reentrancy in withdraw")],
      [sdk |-> TRUE, env_key |-> "sk-env", client |-> "ok",
       response |-> RequestRaises("APIConnectionError")],
      [sdk |-> TRUE, env_key |-> "sk-env", client |-> "ImportError",
       response |-> NoContent] }

ApiKeys == {"None", "", "sk-arg"}

Models == {"gpt-4o-mini", "gpt-4o"}

NoRun == Raised("not run")

\* The tool behaviours the audit command is run against: one per path
\* through run_slither and run_solhint.
AuditSlitherOutcomes ==
    { Raised("FileNotFoundError"),
      Completed(0, Text(""), Text("")),
      Completed(255,
                JsonText(JDict([results |-> JDict([detectors |->
                    JList(<<JDict([description |-> <<"Reentrancy", "in", "withdraw">>,
                                   impact |-> "High",
                                   elements |-> <<Element(TRUE)>>])>>)])])),
                Text("")),
      Completed(255, JsonText(JDict([results |-> JDict([detectors |->
                    JList(<<JDict([description |-> <<"unused", "variable">>,
                                   elements |-> <<Element(FALSE)>>])>>)])])),
                Text("")),
      Completed(1, Text(""), Text("Traceback")) }

AuditSlitherAltOutcomes ==
    { Completed(0, Text("garbage"), Text("")),
      Completed(1, Text(""), Text("Traceback")) }

AuditSolhintOutcomes ==
    { Completed(0, JsonText(JList(<<>>)), Text("")),
      Completed(0, JsonText(JList(<<JDict([message |-> "Explicitly mark visibility",
                                           severity |-> "warning"])>>)), Text("")),
      Completed(0, JsonText(JNull), Text("")),
      Completed(0, Text("garbage"), Text("")),
      Completed(1, Text(""), Text("Failed to load config file")),
      Completed(1, Text(""), Text("Cannot read CONFIG")),
      Completed(1, Text(""), Text("failed to load plugin")),
      Completed(1, Text(""), Text("invalid config")) }

\* the retry runs with cwd=file_dir, where a relative PATH entry may no
\* longer lead to the solhint executable
AuditSolhintRetryOutcomes ==
    { Raised("FileNotFoundError"),
      Completed(0, JsonText(JList(<<>>)), Text("")),
      Completed(1, Text(""), Text("invalid config")) }

AllDirs == { <<>>, <<"src">>, <<"lib">>, <<"contracts">>,
             <<"contracts", "node_modules">> }

\* .solhint.json files present before the run (directory -> content) and
\* the directories the process may write to
ConfigSetups ==
    { [configs |-> <<>>, writable |-> AllDirs],
      [configs |-> <<>>, writable |-> {}],
      [configs |-> [d \in { <<"src">> } |-> "user"], writable |-> AllDirs] }

\* ------------------------------------------------------------------------
\* cli.py: the audit command
\* ------------------------------------------------------------------------
VARIABLES
    fs,              \* the file system's .sol and other files
    path,            \* PATH argument
    recursive,       \* --recursive/--no-recursive
    include_libs,    \* --include-libs
    ai,              \* --ai/--no-ai
    output,          \* --output, "None" when not given
    configs,         \* .solhint.json files: directory -> content
    writable,        \* directories a .solhint.json can be written to
    config_path,     \* <<directory>> of the .solhint.json in use, <<>> for None
    pc,              \* position in audit()
    sol_files,       \* result of find_sol_files
    idx,             \* position of the for loop in sol_files
    slither_results, \* local of the loop body
    solhint_results, \* local of the loop body
    pending,         \* outcome of the first run while a second one is made
    second_run,      \* outcome of the second run when a runner is applied alone
    all_results,     \* the dict, in insertion order
    running,         \* tool subprocesses running now
    log,             \* subprocess.run calls and returns, in order
    ai_summary_text, \* "None" or the text generate_ai_summary returned
    ai_calls,        \* number of generate_ai_summary calls
    model,           \* --model
    api_key,         \* --api-key, "None" when not given
    ai_env,          \* the environment generate_ai_summary met, <<>> before
    requests,        \* requests sent to the OpenAI API, in order
    report,          \* the lines written to the report file, <<>> when none is
    summary,         \* the dict generate_report returned, <<>> before
    err,             \* messages echoed to stderr
    exit_code,       \* -1 while running, then the process exit status
    crashed          \* "none" or the exception that ended the run

vars == <<fs, path, recursive, include_libs, ai, output, configs, writable,
          config_path, pc,
          sol_files, idx, slither_results, solhint_results, pending, second_run,
          all_results, running, log,
          ai_summary_text, ai_calls, model, api_key, ai_env, requests,
          report, summary, err, exit_code, crashed>>

inputs == <<fs, path, recursive, include_libs, ai, output, writable, second_run,
            model, api_key>>

Init ==
    /\ fs \in FileSystems
    /\ path \in {p \in PathArgs : Exists(fs, p)}
    /\ recursive \in BOOLEAN
    /\ include_libs \in BOOLEAN
    /\ ai \in BOOLEAN
    /\ output \in {"None"}
    /\ \E setup \in ConfigSetups :
         configs = setup.configs /\ writable = setup.writable
    /\ config_path = <<>>
    /\ pc = "start"
    /\ sol_files = <<>>
    /\ idx = 0
    /\ slither_results = <<>>
    /\ solhint_results = <<>>
    /\ pending = NoRun
    /\ second_run = NoRun
    /\ all_results = <<>>
    /\ running = {}
    /\ log = <<>>
    /\ ai_summary_text = "None"
    /\ ai_calls = 0
    /\ model = "gpt-4o-mini"
    /\ api_key = "None"
    /\ ai_env = <<>>
    /\ requests = <<>>
    /\ report = <<>>
    /\ summary = <<>>
    /\ err = <<>>
    /\ exit_code = -1
    /\ crashed = "none"

\* The loop variable stuck on the first file.
file_path_first_only == sol_files[1]

file_path == sol_files[idx]

\* Discovery that returns normally when nothing was found, as auditor.py does.
FindFiles_plain_return ==
    /\ pc = "start"
    /\ sol_files' = find_sol_files(fs, path, recursive, include_libs)
    /\ IF sol_files' = <<>>
       THEN /\ err' = Append(err, "No .sol files found.")
            /\ exit_code' = 0
            /\ pc' = "exit"
            /\ idx' = idx
       ELSE /\ pc' = "slither"
            /\ idx' = 1
            /\ UNCHANGED <<err, exit_code>>
    /\ UNCHANGED <<inputs, ai_env, requests, configs, config_path, slither_results, solhint_results, pending, all_results,
                   running, log, ai_summary_text, ai_calls, report, summary,
                   crashed>>

\* Lines 70-74: discovery, and the early exit when nothing was found.
FindFiles ==
    /\ pc = "start"
    /\ sol_files' = find_sol_files(fs, path, recursive, include_libs)
    /\ IF sol_files' = <<>>
       THEN /\ err' = Append(err, "No .sol files found.")
            /\ exit_code' = 1
            /\ pc' = "exit"
            /\ idx' = idx
       ELSE /\ pc' = "slither"
            /\ idx' = 1
            /\ UNCHANGED <<err, exit_code>>
    /\ UNCHANGED <<inputs, ai_env, requests, configs, config_path, slither_results, solhint_results, pending, all_results,
                   running, log, ai_summary_text, ai_calls, report, summary,
                   crashed>>

\* subprocess.run is entered: the call is logged and the child runs.
Invoke(tool, kind, next_pc) ==
    /\ running' = running \cup {<<tool, file_path>>}
    /\ log' = Append(log, [ev |-> "call", tool |-> tool, cmd |-> kind,
                           file |-> file_path])
    /\ pc' = next_pc

\* A return that leaves the child running, as a Popen without wait would.
Return_without_wait(tool) ==
    /\ running' = running
    /\ log' = Append(log, [ev |-> "return", tool |-> tool, file |-> file_path])

\* subprocess.run returns or raises: the child is gone.
Return(tool) ==
    /\ running' = running \ {<<tool, file_path>>}
    /\ log' = Append(log, [ev |-> "return", tool |-> tool, file |-> file_path])

\* run_slither lines 69-74: ["slither", file_path, "--json", "-"]
SlitherStart ==
    /\ pc = "slither"
    /\ Invoke("slither", "json", "slither_wait")
    /\ UNCHANGED <<inputs, ai_env, requests, configs, config_path, sol_files, idx, slither_results, solhint_results, pending,
                   all_results, ai_summary_text, ai_calls, report, summary,
                   err, exit_code, crashed>>

\* run_slither lines 76-183 up to the second run, if one is made
SlitherEnd ==
    /\ pc = "slither_wait"
    /\ \E first \in AuditSlitherOutcomes :
         /\ Return("slither")
         /\ IF SlitherNeedsAlt(first)
            THEN /\ pending' = first
                 /\ pc' = "slither_alt"
                 /\ UNCHANGED slither_results
            ELSE /\ slither_results' = run_slither(file_path, first, NoRun)
                 /\ pc' = "solhint"
                 /\ UNCHANGED pending
    /\ UNCHANGED <<inputs, ai_env, requests, configs, config_path, sol_files, idx, solhint_results,
                   all_results, ai_summary_text, ai_calls, report, summary,
                   err, exit_code, crashed>>

\* run_slither lines 124-129: ["slither", file_path]
SlitherAltStart ==
    /\ pc = "slither_alt"
    /\ Invoke("slither", "plain", "slither_alt_wait")
    /\ UNCHANGED <<inputs, ai_env, requests, configs, config_path, sol_files, idx, slither_results, solhint_results, pending,
                   all_results, ai_summary_text, ai_calls, report, summary,
                   err, exit_code, crashed>>

\* run_slither lines 130-142
SlitherAltEnd ==
    /\ pc = "slither_alt_wait"
    /\ \E alt \in AuditSlitherAltOutcomes :
         /\ Return("slither")
         /\ slither_results' = run_slither(file_path, pending, alt)
    /\ pending' = NoRun
    /\ pc' = "solhint"
    /\ UNCHANGED <<inputs, ai_env, requests, configs, config_path, sol_files, idx, solhint_results, all_results,
                   ai_summary_text, ai_calls, report, summary, err, exit_code,
                   crashed>>

\* run_solhint lines 102-130: the config is found or created, Solhint is run
\* with --config, or from the file's directory when there is no config.
SolhintStart ==
    /\ pc = "solhint"
    /\ LET cfg == _find_or_create_solhint_config(file_path, configs, writable)
       IN /\ configs' = cfg.configs
          /\ config_path' = cfg.config_path
          /\ Invoke("solhint",
                    IF cfg.config_path # <<>> THEN "config" ELSE "cwd",
                    "solhint_wait")
    /\ UNCHANGED <<inputs, ai_env, requests, sol_files, idx, slither_results, solhint_results, pending,
                   all_results, ai_summary_text, ai_calls, report, summary,
                   err, exit_code, crashed>>

\* Lines 88-92 and the loop's step; an exception run_solhint lets through
\* ends the command with a traceback and exit status 1.
EndOfFile(returned) ==
    IF "raises" \in DOMAIN returned
    THEN /\ crashed' = returned.raises
         /\ exit_code' = 1
         /\ pc' = "exit"
         /\ UNCHANGED <<all_results, idx, solhint_results>>
    ELSE /\ solhint_results' = returned
         /\ all_results' = DictSet(all_results, file_path, slither_results,
                                   returned)
         /\ IF idx < Len(sol_files)
            THEN idx' = idx + 1 /\ pc' = "slither"
            ELSE idx' = idx /\ pc' = "ai"
         /\ UNCHANGED <<crashed, exit_code>>

\* run_solhint lines 131-201 up to the retry, if one is made
SolhintEnd ==
    /\ pc = "solhint_wait"
    /\ \E first \in AuditSolhintOutcomes :
         /\ Return("solhint")
         /\ IF SolhintNeedsRetry(first)
            THEN /\ pending' = first
                 /\ pc' = "solhint_retry"
                 /\ UNCHANGED <<all_results, idx, solhint_results, crashed,
                                exit_code>>
            ELSE /\ EndOfFile(run_solhint(file_path, first, NoRun))
                 /\ UNCHANGED pending
    /\ UNCHANGED <<inputs, ai_env, requests, configs, config_path, sol_files, slither_results,
                   ai_summary_text, ai_calls, report, summary, err>>

\* run_solhint lines 162-168: ["solhint", file_name] with cwd=file_dir
SolhintRetryStart ==
    /\ pc = "solhint_retry"
    /\ Invoke("solhint", "retry", "solhint_retry_wait")
    /\ UNCHANGED <<inputs, ai_env, requests, configs, config_path, sol_files, idx, slither_results, solhint_results, pending,
                   all_results, ai_summary_text, ai_calls, report, summary,
                   err, exit_code, crashed>>

\* run_solhint lines 169-197
SolhintRetryEnd ==
    /\ pc = "solhint_retry_wait"
    /\ \E retry \in AuditSolhintRetryOutcomes :
         /\ Return("solhint")
         /\ EndOfFile(run_solhint(file_path, pending, retry))
    /\ pending' = NoRun
    /\ UNCHANGED <<inputs, ai_env, requests, configs, config_path, sol_files, slither_results,
                   ai_summary_text, ai_calls, report, summary, err>>

\* The summary requested whatever --ai/--no-ai says.
AiSummary_always ==
    /\ pc = "ai"
    /\ IF TRUE
       THEN \E env \in AuditAiEnvs :
              LET r == generate_ai_summary(all_results, sol_files, model,
                                           api_key, env)
              IN /\ ai_env' = env
                 /\ ai_calls' = ai_calls + 1
                 /\ requests' = requests \o r.requests
                 /\ IF "raises" \in DOMAIN r
                    THEN /\ crashed' = r.raises
                         /\ exit_code' = 1
                         /\ pc' = "exit"
                         /\ UNCHANGED ai_summary_text
                    ELSE /\ ai_summary_text' = r.text
                         /\ pc' = "report"
                         /\ UNCHANGED <<crashed, exit_code>>
       ELSE /\ pc' = "report"
            /\ UNCHANGED <<ai_summary_text, ai_calls, ai_env, requests,
                           crashed, exit_code>>
    /\ UNCHANGED <<inputs, configs, config_path, sol_files, idx,
                   slither_results, solhint_results, pending, all_results,
                   running, log, report, summary, err>>

\* Lines 94-98: generate_ai_summary is called when --ai was given.
AiSummary ==
    /\ pc = "ai"
    /\ IF ai
       THEN \E env \in AuditAiEnvs :
              LET r == generate_ai_summary(all_results, sol_files, model,
                                           api_key, env)
              IN /\ ai_env' = env
                 /\ ai_calls' = ai_calls + 1
                 /\ requests' = requests \o r.requests
                 /\ IF "raises" \in DOMAIN r
                    THEN /\ crashed' = r.raises
                         /\ exit_code' = 1
                         /\ pc' = "exit"
                         /\ UNCHANGED ai_summary_text
                    ELSE /\ ai_summary_text' = r.text
                         /\ pc' = "report"
                         /\ UNCHANGED <<crashed, exit_code>>
       ELSE /\ pc' = "report"
            /\ UNCHANGED <<ai_summary_text, ai_calls, ai_env, requests,
                           crashed, exit_code>>
    /\ UNCHANGED <<inputs, configs, config_path, sol_files, idx,
                   slither_results, solhint_results, pending, all_results,
                   running, log, report, summary, err>>

\* Lines 100-114: the call of generate_report and the exit status.  A keyword
\* argument the function does not declare is a TypeError raised before the
\* function body runs.
Report ==
    /\ pc = "report"
    /\ IF AuditReportKeywords \subseteq GenerateReportParams
       THEN LET r == generate_report(all_results, sol_files, output)
            IN /\ report' = r.lines
               /\ summary' = r.summary
               /\ exit_code' = IF r.summary.vulnerabilities > 0 THEN 1 ELSE 0
               /\ UNCHANGED crashed
       ELSE /\ crashed' = "TypeError"
            /\ exit_code' = 1
            /\ UNCHANGED <<report, summary>>
    /\ pc' = "exit"
    /\ UNCHANGED <<inputs, ai_env, requests, configs, config_path, sol_files, idx, slither_results, solhint_results, pending,
                   all_results, running, log, ai_summary_text, ai_calls, err>>

Next ==
    \/ FindFiles
    \/ SlitherStart
    \/ SlitherEnd
    \/ SlitherAltStart
    \/ SlitherAltEnd
    \/ SolhintStart
    \/ SolhintEnd
    \/ SolhintRetryStart
    \/ SolhintRetryEnd
    \/ AiSummary
    \/ Report

Spec == Init /\ [][Next]_vars

\* ------------------------------------------------------------------------
\* The runners applied on their own to every tool behaviour
\* ------------------------------------------------------------------------
\* the variables of the audit command that a lone call does not touch
Idle ==
    /\ fs = FS1
    /\ path = <<".">>
    /\ recursive = TRUE
    /\ include_libs = FALSE
    /\ ai = FALSE
    /\ configs = <<>>
    /\ writable = AllDirs
    /\ config_path = <<>>
    /\ slither_results = <<>>
    /\ solhint_results = <<>>
    /\ running = {}
    /\ log = <<>>
    /\ ai_summary_text = "None"
    /\ ai_calls = 0
    /\ model = "gpt-4o-mini"
    /\ api_key = "None"
    /\ ai_env = <<>>
    /\ requests = <<>>
    /\ report = <<>>
    /\ summary = <<>>
    /\ err = <<>>
    /\ exit_code = -1
    /\ crashed = "none"

RunnersInit ==
    /\ Idle
    /\ output = "None"
    /\ sol_files \in { << <<"src", "B.sol">> >>, << <<"A.sol">> >> }
    /\ idx = 1
    /\ all_results = <<>>
    /\ \/ /\ pc = "run_slither"
          /\ pending \in SlitherOutcomes
          /\ second_run \in IF SlitherNeedsAlt(pending)
                            THEN SlitherAltOutcomes ELSE {NoRun}
       \/ /\ pc = "run_solhint"
          /\ pending \in SolhintOutcomes
          /\ second_run \in IF SolhintNeedsRetry(pending)
                            THEN SolhintRetryOutcomes ELSE {NoRun}

\* slither_results = run_slither(file_path)
RunSlither ==
    /\ pc = "run_slither"
    /\ slither_results' = run_slither(file_path, pending, second_run)
    /\ pc' = "slither_returned"
    /\ UNCHANGED <<inputs, ai_env, requests, configs, config_path, sol_files, idx, solhint_results, pending,
                   all_results, running, log, ai_summary_text, ai_calls,
                   report, summary, err, exit_code, crashed>>

\* solhint_results = run_solhint(file_path), or the exception it lets through
RunSolhint ==
    /\ pc = "run_solhint"
    /\ LET returned == run_solhint(file_path, pending, second_run)
       IN IF "raises" \in DOMAIN returned
          THEN /\ crashed' = returned.raises
               /\ pc' = "solhint_raised"
               /\ UNCHANGED solhint_results
          ELSE /\ solhint_results' = returned
               /\ pc' = "solhint_returned"
               /\ UNCHANGED crashed
    /\ UNCHANGED <<inputs, ai_env, requests, configs, config_path, sol_files, idx, slither_results, pending,
                   all_results, running, log, ai_summary_text, ai_calls,
                   report, summary, err, exit_code>>

RunnersNext == RunSlither \/ RunSolhint

SpecRunners == RunnersInit /\ [][RunnersNext]_vars

\* ------------------------------------------------------------------------
\* generate_report applied on its own to the results the runners return
\* ------------------------------------------------------------------------
ReportFiles ==
    << <<"src", "A.sol">>, <<"src", "B.sol">>, <<"lib", "C.sol">>, <<"D.sol">> >>

\* what run_slither returns for the JSON documents, an error and a warning
ReportSlitherResults(f) ==
    { run_slither(f, Completed(rc, out, Text("")),
                  Completed(255, Text("garbage"), Text(""))) :
        rc \in {255, 1}, out \in SlitherStdouts }

\* what run_solhint returns for the JSON documents and for unparsable output
ReportSolhintResults(f) ==
    { r \in { run_solhint(f, Completed(0, out, Text("")), NoRun) :
                out \in SolhintStdouts } : "raises" \notin DOMAIN r }

ReportInit ==
    /\ Idle
    /\ pending = NoRun
    /\ second_run = NoRun
    /\ idx = 0
    /\ pc = "call_report"
    /\ output \in {"None", "report.md"}
    /\ \E n \in 1..MaxFiles :
         /\ sol_files = SubSeq(ReportFiles, 1, n)
         /\ all_results \in
              { rs \in [1..n -> UNION { [file_path : {ReportFiles[i]},
                                         slither : ReportSlitherResults(ReportFiles[i]),
                                         solhint : ReportSolhintResults(ReportFiles[i])] :
                                        i \in 1..n }] :
                  \A i \in 1..n : rs[i].file_path = ReportFiles[i] }

\* summary = generate_report(all_results, sol_files, output_file=output)
GenerateReport ==
    /\ pc = "call_report"
    /\ LET r == generate_report(all_results, sol_files, output)
       IN /\ report' = r.lines
          /\ summary' = r.summary
    /\ pc' = "report_returned"
    /\ UNCHANGED <<inputs, ai_env, requests, configs, config_path, sol_files, idx, slither_results,
                   solhint_results, pending, all_results, running, log,
                   ai_summary_text, ai_calls, err, exit_code, crashed>>

ReportNext == GenerateReport

SpecReport == ReportInit /\ [][ReportNext]_vars

\* ------------------------------------------------------------------------
\* Properties of the audit command
\* ------------------------------------------------------------------------
\* every discovered file has its entry in all_results
Analysed == sol_files # <<>> /\ Len(all_results) = Len(sol_files)

\* the "## ..." headings of a report, in order
Headings(lines) ==
    LET IsHeading(line) == line[1] \in {"## ", "## Summary"}
    IN SelectSeq(lines, IsHeading)

\* one "## <basename>" heading per analysed file, then "## Summary"
HasSections(lines) ==
    Headings(lines) =
        [i \in 1..Len(all_results) |-> <<"## ", Basename(all_results[i].file_path)>>]
        \o << <<"## Summary">> >>

\* C1: a run that discovered files and analysed them with AI disabled ends
\* with the report written (one section per file, then the summary) and
\* without an uncaught exception.
C1_ReportWritten ==
    (pc = "exit" /\ Analysed /\ ~ai)
        => (report # <<>> /\ HasSections(report) /\ crashed = "none")

\* C2: with --ai, the report written holds a line that is the text
\* generate_ai_summary returned.
C2_AiSummaryInReport ==
    (pc = "exit" /\ Analysed /\ ai)
        => (report # <<>>
            /\ \E i \in 1..Len(report) : report[i] = <<"", ai_summary_text>>)

\* the directory components of a returned path
DirParts(p) == LET n == NormPath(p) IN { n[i] : i \in 1..(Len(n) - 1) }

\* C3: without include_libs no returned file lies in a directory named in
\* DEFAULT_EXCLUDE_DIRS, whatever the path argument and the scan mode; with
\* include_libs a recursive directory scan returns every .sol file below it.
C3_LibsExcluded ==
    pc # "start" =>
        /\ ~include_libs =>
              \A i \in 1..Len(sol_files) :
                 DirParts(sol_files[i]) \cap DEFAULT_EXCLUDE_DIRS = {}
        /\ (include_libs /\ recursive /\ IsDir(fs, path)) =>
              \A f \in fs :
                 (IsPrefix(NormPath(path), f) /\ EndsWithSol(f[Len(f)]))
                    => \E i \in 1..Len(sol_files) : NormPath(sol_files[i]) = f

\* vulnerabilities over the results collected
VulnerabilitiesFound ==
    \E i \in 1..Len(all_results) :
        "vulnerabilities" \in DOMAIN all_results[i].slither
        /\ all_results[i].slither.vulnerabilities # <<>>

\* C4: a run that found no file or analysed all of them exits with a
\* non-zero status exactly when no file was found or a vulnerability was
\* counted.
C4_ExitStatus ==
    (pc = "exit" /\ (sol_files = <<>> \/ Analysed))
        => ((exit_code # 0) <=> (sol_files = <<>> \/ VulnerabilitiesFound))

\* C5: when find_sol_files returned nothing the command has printed
\* 'No .sol files found.' on stderr and exited with status 1, and no tool
\* was run, the AI service was not called and no report was written.
C5_NoFilesExit ==
    (pc # "start" /\ sol_files = <<>>)
        => /\ pc = "exit"
           /\ err = <<"No .sol files found.">>
           /\ exit_code = 1
           /\ crashed = "none"
           /\ log = <<>>
           /\ running = {}
           /\ ai_calls = 0
           /\ requests = <<>>
           /\ ai_summary_text = "None"
           /\ report = <<>>
           /\ all_results = <<>>

C5_Witness == pc = "exit" /\ sol_files = <<>> /\ exit_code = 1

\* number of subprocess.run calls of a tool for a file, by command
Calls(tool, file, cmds) ==
    Cardinality({ i \in 1..Len(log) :
                    /\ log[i].ev = "call"
                    /\ log[i].tool = tool
                    /\ log[i].file = file
                    /\ log[i].cmd \in cmds })

\* C6 as stated: exactly one Slither and exactly one Solhint invocation for
\* every analysed file.
C6_ExactlyOneEach ==
    \A i \in 1..Len(all_results) :
        /\ Calls("slither", all_results[i].file_path, {"json", "plain"}) = 1
        /\ Calls("solhint", all_results[i].file_path, {"config", "cwd", "retry"}) = 1

\* C6 amended: for every analysed file there is exactly one 'slither --json'
\* invocation and at most one more without --json, and exactly one first
\* Solhint invocation and at most one retry.
C6_OneOrTwoEach ==
    \A i \in 1..Len(all_results) :
        /\ Calls("slither", all_results[i].file_path, {"json"}) = 1
        /\ Calls("slither", all_results[i].file_path, {"plain"}) <= 1
        /\ Calls("solhint", all_results[i].file_path, {"config", "cwd"}) = 1
        /\ Calls("solhint", all_results[i].file_path, {"retry"}) <= 1

C6_Witness ==
    /\ Len(all_results) = 2
    /\ Calls("slither", all_results[1].file_path, {"plain"}) = 1
    /\ Calls("solhint", all_results[2].file_path, {"retry"}) = 1

\* position of a file in sol_files
Pos(file) == CHOOSE i \in 1..Len(sol_files) : sol_files[i] = file

Rank(tool) == IF tool = "slither" THEN 1 ELSE 2

\* C7: calls and returns alternate (a call's return precedes the next call),
\* at most one tool process runs at any time, the calls follow the order of
\* sol_files with Slither before Solhint for each file, and every file
\* before the current one has been through both tools.
C7_Sequential ==
    /\ Cardinality(running) <= 1
    /\ \A i \in 1..Len(log) :
          /\ log[i].ev = (IF i % 2 = 1 THEN "call" ELSE "return")
          /\ (i % 2 = 0) => (log[i].tool = log[i - 1].tool
                             /\ log[i].file = log[i - 1].file)
    /\ (running # {}) <=> (Len(log) % 2 = 1)
    /\ \A i, j \in 1..Len(log) :
          i < j =>
             \/ Pos(log[i].file) < Pos(log[j].file)
             \/ /\ Pos(log[i].file) = Pos(log[j].file)
                /\ Rank(log[i].tool) <= Rank(log[j].tool)
    /\ \A i \in 1..Len(log) :
          /\ log[i].file \in { sol_files[k] : k \in 1..Len(sol_files) }
          /\ Pos(log[i].file) <= idx
          /\ \A k \in 1..(Pos(log[i].file) - 1) :
                /\ Calls("slither", sol_files[k], {"json"}) = 1
                /\ Calls("solhint", sol_files[k], {"config", "cwd"}) = 1
    /\ \A k \in 1..Len(all_results) : all_results[k].file_path = sol_files[k]

C7_Witness ==
    /\ Len(sol_files) = 2
    /\ pc = "solhint_wait"
    /\ idx = 2
    /\ running = {<<"solhint", sol_files[2]>>}
    /\ Len(log) >= 7

\* the keys of a returned dict
Keys(result) == DOMAIN result

SlitherLists == {"vulnerabilities", "inefficiencies", "best_practices"}

SlitherKeysOk(result) ==
    /\ ("error" \in Keys(result)) \/ (SlitherLists \subseteq Keys(result))
    /\ ("error" \in Keys(result)) => (SlitherLists \cap Keys(result) = {})

SolhintKeysOk(result) ==
    /\ ("error" \in Keys(result)) \/ ("best_practices" \in Keys(result))
    /\ ~(("error" \in Keys(result)) /\ ("best_practices" \in Keys(result)))

\* C8: every dict run_slither returned holds 'error' or all three lists and
\* never 'error' next to a list; every dict run_solhint returned holds
\* 'error' or 'best_practices' and never both.
C8_KeysPresent ==
    /\ (pc = "slither_returned") => SlitherKeysOk(slither_results)
    /\ (pc = "solhint_returned") => SolhintKeysOk(solhint_results)

C8_Witness ==
    /\ pc = "slither_returned"
    /\ pending.raised = "none"
    /\ pending.returncode = 0
    /\ ~StripNonEmpty(pending.stdout)
    /\ Keys(slither_results) = SlitherLists

\* the first run ended with an exit code other than 0 and 255
OtherExitCode == pending.raised = "none" /\ pending.returncode \notin {0, 255}

ErrorOnly(result) == "error" \in Keys(result) /\ SlitherLists \cap Keys(result) = {}

\* C10 as stated: after an exit code other than 0 and 255 run_slither
\* returns a dict with 'error' and no findings list.
C10_ErrorOnOtherExitCode ==
    (pc = "slither_returned" /\ OtherExitCode) => ErrorOnly(slither_results)

\* C10 amended: after an exit code other than 0 and 255 run_slither returns
\* a dict with 'error' and no findings list, unless the second run (without
\* --json) exits with 0 or 255: then it returns three empty lists and a
\* 'warning', and no 'error'.
C10_ErrorUnlessAltSucceeds ==
    (pc = "slither_returned" /\ OtherExitCode) =>
        IF second_run.raised = "none" /\ second_run.returncode \in {0, 255}
        THEN /\ Keys(slither_results) = SlitherLists \cup {"warning"}
             /\ \A k \in SlitherLists : slither_results[k] = <<>>
        ELSE ErrorOnly(slither_results)

C10_Witness ==
    /\ pc = "slither_returned"
    /\ OtherExitCode
    /\ second_run.raised = "none"
    /\ second_run.returncode = 255
    /\ "warning" \in Keys(slither_results)

\* ------------------------------------------------------------------------
\* Properties of generate_report
\* ------------------------------------------------------------------------
\* number of findings under a key over the results that hold no 'error',
\* counted as positions
Positions(which, key) ==
    Cardinality(UNION {
        { <<i, j>> : j \in 1..(IF "error" \in DOMAIN all_results[i][which]
                                  \/ key \notin DOMAIN all_results[i][which]
                               THEN 0
                               ELSE Len(all_results[i][which][key])) } :
        i \in 1..Len(all_results) })

\* the number a decimal digit string denotes
RECURSIVE ParseInt(_)
ParseInt(digits) ==
    IF digits = <<>> THEN 0
    ELSE 10 * ParseInt(SubSeq(digits, 1, Len(digits) - 1)) + digits[Len(digits)]

\* the count written on the line with the given label after "## Summary"
Written(label) ==
    LET k == CHOOSE i \in 1..Len(report) : report[i] = <<"## Summary">>
        line == CHOOSE i \in (k + 1)..Len(report) : report[i][1] = label
    IN ParseInt(report[line][2])

\* C9: the summary's total is the sum of its three counts, each count is
\* the number of findings in the lists of the results without 'error'
\* (Slither's for vulnerabilities and inefficiencies, both tools' for best
\* practices), and the Summary section of the report shows the same numbers.
C9_SummaryCounts ==
    (pc = "report_returned") =>
        /\ summary.total_issues =
              summary.vulnerabilities + summary.inefficiencies + summary.best_practices
        /\ summary.vulnerabilities = Positions("slither", "vulnerabilities")
        /\ summary.inefficiencies = Positions("slither", "inefficiencies")
        /\ summary.best_practices =
              Positions("slither", "best_practices")
              + Positions("solhint", "best_practices")
        /\ Written("- Total Issues: ") = summary.total_issues
        /\ Written("- Vulnerabilities: ") = summary.vulnerabilities
        /\ Written("- Inefficiencies: ") = summary.inefficiencies
        /\ Written("- Best Practices: ") = summary.best_practices
        /\ Len(report) = (CHOOSE i \in 1..Len(report) : report[i] = <<"## Summary">>) + 4

C9_Witness ==
    /\ pc = "report_returned"
    /\ Len(all_results) = 2
    /\ "error" \in DOMAIN all_results[1].slither
    /\ "error" \in DOMAIN all_results[2].solhint
    /\ summary.vulnerabilities = 1
    /\ summary.best_practices = 1
    /\ summary.total_issues = 2

\* ------------------------------------------------------------------------
\* Properties of run_slither's handling of its JSON run
\* ------------------------------------------------------------------------
ThreeEmptyLists(result) ==
    /\ Keys(result) = SlitherLists
    /\ \A k \in SlitherLists : result[k] = <<>>

\* C11: when the JSON run prints text that is not JSON, run_slither returns
\* three empty lists for exit code 0 and an 'error' for exit code 255; when
\* it prints nothing or only whitespace, both exit codes give three empty
\* lists.
C11_InvalidJsonOutput ==
    (pc = "slither_returned" /\ pending.raised = "none"
        /\ pending.stdout.k = "text" /\ pending.returncode \in {0, 255}) =>
        IF pending.stdout.s \in {"", " "}
        THEN ThreeEmptyLists(slither_results)
        ELSE IF pending.returncode = 0
        THEN ThreeEmptyLists(slither_results)
        ELSE ErrorOnly(slither_results)

C11_Witness ==
    /\ pc = "slither_returned"
    /\ pending.raised = "none"
    /\ pending.returncode = 255
    /\ pending.stdout = Text("garbage")
    /\ ErrorOnly(slither_results)

\* ------------------------------------------------------------------------
\* solhint_runner.py: _find_or_create_solhint_config applied alone
\* ------------------------------------------------------------------------
ConfigFiles ==
    { <<"A.sol">>, <<"src", "B.sol">>, <<"contracts", "C.sol">>,
      <<"contracts", "node_modules", "D.sol">> }

ConfigInit ==
    /\ fs = FS1
    /\ path = <<".">>
    /\ recursive = TRUE
    /\ include_libs = FALSE
    /\ ai = FALSE
    /\ output = "None"
    /\ configs \in UNION { [S -> {"user"}] : S \in SUBSET AllDirs }
    /\ writable \in SUBSET AllDirs
    /\ config_path = <<>>
    /\ pc = "call_config"
    /\ sol_files \in { <<f>> : f \in ConfigFiles }
    /\ idx = 1
    /\ slither_results = <<>>
    /\ solhint_results = <<>>
    /\ pending = NoRun
    /\ second_run = NoRun
    /\ all_results = <<>>
    /\ running = {}
    /\ log = <<>>
    /\ ai_summary_text = "None"
    /\ ai_calls = 0
    /\ model = "gpt-4o-mini"
    /\ api_key = "None"
    /\ ai_env = <<>>
    /\ requests = <<>>
    /\ report = <<>>
    /\ summary = <<>>
    /\ err = <<>>
    /\ exit_code = -1
    /\ crashed = "none"

\* config_path = _find_or_create_solhint_config(file_path)
FindOrCreateConfig ==
    /\ pc = "call_config"
    /\ LET cfg == _find_or_create_solhint_config(file_path, configs, writable)
       IN /\ configs' = cfg.configs
          /\ config_path' = cfg.config_path
    /\ pc' = "config_returned"
    /\ UNCHANGED <<inputs, ai_env, requests, sol_files, idx, slither_results, solhint_results,
                   pending, all_results, running, log, ai_summary_text,
                   ai_calls, report, summary, err, exit_code, crashed>>

ConfigNext == FindOrCreateConfig

SpecConfig == ConfigInit /\ [][ConfigNext]_vars

\* ------------------------------------------------------------------------
\* ai_assistant.py: generate_ai_summary applied alone
\* ------------------------------------------------------------------------
AiResults ==
    { << [file_path |-> <<"A.sol">>,
          slither |-> Error(Msg("Slither not found. Please install it: pip install slither-analyzer")),
          solhint |-> [best_practices |-> <<>>]] >>,
      << [file_path |-> <<"A.sol">>,
          slither |-> EmptyFindings,
          solhint |-> [best_practices |->
                         << [issue |-> "Explicitly mark visibility",
                             severity |-> "Warning",
                             location |-> << <<"A.sol">>, "3", "5">>,
                             category |-> "best_practice"] >>]] >> }

AiInit ==
    /\ fs = FS1
    /\ path = <<".">>
    /\ recursive = TRUE
    /\ include_libs = FALSE
    /\ ai = TRUE
    /\ output = "None"
    /\ configs = <<>>
    /\ writable = AllDirs
    /\ config_path = <<>>
    /\ pc = "call_ai"
    /\ sol_files = << <<"A.sol">> >>
    /\ idx = 1
    /\ slither_results = <<>>
    /\ solhint_results = <<>>
    /\ pending = NoRun
    /\ second_run = NoRun
    /\ all_results \in AiResults
    /\ running = {}
    /\ log = <<>>
    /\ ai_summary_text = "None"
    /\ ai_calls = 0
    /\ model \in Models
    /\ api_key \in ApiKeys
    /\ ai_env \in AiEnvs
    /\ requests = <<>>
    /\ report = <<>>
    /\ summary = <<>>
    /\ err = <<>>
    /\ exit_code = -1
    /\ crashed = "none"

\* ai_summary_text = generate_ai_summary(all_results, sol_files, model=model,
\* api_key=api_key)
GenerateAiSummary ==
    /\ pc = "call_ai"
    /\ LET r == generate_ai_summary(all_results, sol_files, model, api_key,
                                    ai_env)
       IN /\ requests' = requests \o r.requests
          /\ ai_calls' = ai_calls + 1
          /\ IF "raises" \in DOMAIN r
             THEN /\ crashed' = r.raises
                  /\ pc' = "ai_raised"
                  /\ UNCHANGED ai_summary_text
             ELSE /\ ai_summary_text' = r.text
                  /\ pc' = "ai_returned"
                  /\ UNCHANGED crashed
    /\ UNCHANGED <<inputs, ai_env, configs, config_path, sol_files, idx,
                   slither_results, solhint_results, pending, all_results,
                   running, log, report, summary, err, exit_code>>

AiNext == GenerateAiSummary

SpecAi == AiInit /\ [][AiNext]_vars

\* ------------------------------------------------------------------------
\* Properties of run_slither's categorisation
\* ------------------------------------------------------------------------
\* the JSON run ended with exit code 0 or 255 and printed a document with a
\* detector list
DetectorsParsed ==
    /\ pc = "slither_returned"
    /\ pending.raised = "none"
    /\ pending.returncode \in {0, 255}
    /\ pending.stdout.k = "json"
    /\ pending.stdout.doc.t = "dict"
    /\ "results" \in DOMAIN pending.stdout.doc.v
    /\ pending.stdout.doc.v.results.t = "dict"
    /\ "detectors" \in DOMAIN pending.stdout.doc.v.results.v

ParsedDetectors == pending.stdout.doc.v.results.v.detectors.v

\* the elements of a detector, [] when the key is missing
ElementsOf(detector) ==
    IF "elements" \in DOMAIN detector.v THEN detector.v.elements ELSE <<>>

\* the list a description belongs to, read off its words
HasWord(description, words) ==
    \E i \in 1..Len(description) : description[i] \in words

ListFor(description) ==
    IF HasWord(description, {"reentrancy", "Reentrancy", "vulnerability"})
    THEN "vulnerabilities"
    ELSE IF HasWord(description, {"gas", "Gas", "optimization"})
    THEN "inefficiencies"
    ELSE "best_practices"

\* number of findings with the given description in a returned list
FindingsOf(result, list, description) ==
    Cardinality({ i \in 1..Len(result[list]) : result[list][i].issue = description })

\* number of elements of the detectors with the given description
ElementsWith(description) ==
    Cardinality(UNION {
        { <<i, j>> : j \in 1..(IF ParsedDetectors[i].v.description = description
                               THEN Len(ElementsOf(ParsedDetectors[i])) ELSE 0) } :
        i \in 1..Len(ParsedDetectors) })

Chain(file) ==
    { SubSeq(file, 1, n) : n \in 0..(Len(file) - 1) }

\* the directories of the chain that hold a .solhint.json
ChainConfigs(file, cfgs) == Chain(file) \cap DOMAIN cfgs

\* the deepest directory of a non-empty set of directories of one chain
Nearest(dirs) ==
    CHOOSE d \in dirs : \A e \in dirs : Len(e) <= Len(d)

\* cfgs2 is cfgs with the default configuration added at directory d
DefaultAddedAt(cfgs, cfgs2, d) ==
    /\ d \notin DOMAIN cfgs
    /\ DOMAIN cfgs2 = DOMAIN cfgs \cup {d}
    /\ cfgs2[d] = "default"
    /\ \A x \in DOMAIN cfgs : cfgs2[x] = cfgs[x]

\* C13: when a .solhint.json exists in the file's directory or an ancestor,
\* _find_or_create_solhint_config writes nothing and returns the nearest
\* one; a default configuration is written only when the chain has none.
C13_NoWriteWhenConfigExists ==
    [][pc = "call_config" =>
         IF ChainConfigs(file_path, configs) # {}
         THEN /\ configs' = configs
              /\ config_path' = << Nearest(ChainConfigs(file_path, configs)) >>
         ELSE \/ configs' = configs /\ config_path' = <<>>
              \/ \E d \in Chain(file_path) :
                    /\ DefaultAddedAt(configs, configs', d)
                    /\ config_path' = <<d>>]_vars

C13_Witness ==
    /\ pc = "config_returned"
    /\ file_path = <<"contracts", "node_modules", "D.sol">>
    /\ DOMAIN configs = { <<>>, <<"contracts">>, <<"src">> }
    /\ \A d \in DOMAIN configs : configs[d] = "user"
    /\ config_path = << <<"contracts">> >>

\* ------------------------------------------------------------------------
\* Properties of run_solhint's retry
\* ------------------------------------------------------------------------
\* the modelled stderr texts that hold 'config' together with 'failed to
\* load' or 'cannot read', whatever the case of the letters
ConfigLoadErrors == { "Failed to load config file", "Cannot read CONFIG" }

\* the step starts Solhint a second time for the current file
RetryStarts ==
    /\ Len(log') = Len(log) + 1
    /\ log'[Len(log')].ev = "call"
    /\ log'[Len(log')].cmd = "retry"

\* the error built from the failure of the first run
OriginalFailure ==
    [error |-> [msg |-> "Solhint failed", code |-> pending.returncode,
                stderr |-> pending.stderr.s]]

\* C14: Solhint is started at most twice for a file; the second run is made
\* only after a first run that exited non-zero with a config-load message on
\* stderr; and a retry that fails too makes run_solhint return the 'error'
\* of the first failure (it returns, and the error is the original one).
C14_RetryOnConfigError ==
    /\ [](\A i \in 1..Len(sol_files) :
             Calls("solhint", sol_files[i], {"config", "cwd", "retry"}) <= 2)
    /\ [][RetryStarts =>
             /\ pending.raised = "none"
             /\ pending.returncode # 0
             /\ pending.stderr.s \in ConfigLoadErrors]_vars
    /\ [][pc = "solhint_retry_wait" =>
             /\ crashed' # "FileNotFoundError"
             /\ (crashed' = "none" /\ "error" \in DOMAIN solhint_results')
                   => solhint_results' = OriginalFailure]_vars

\* ------------------------------------------------------------------------
\* Properties of generate_ai_summary
\* ------------------------------------------------------------------------
\* a key that is not given, or given as the empty string
NotSet(key) == key \in {"None", ""}

UnavailableTexts ==
    { "AI summary unavailable: OpenAI SDK not installed.",
      "AI summary unavailable: OPENAI_API_KEY is not set." }

FailedTexts ==
    { "AI summary failed: Connection error.",
      "AI summary failed: Rate limit reached",
      "AI summary failed: list index out of range" }

\* the request was sent and did not give a completion with a message
RequestFailed ==
    requests # <<>> /\ ai_env.response.k \in {"raises", "no_choices"}

\* C15: with no key in the argument and none in OPENAI_API_KEY the call
\* returns an 'AI summary unavailable' text and sends no request; a key given
\* as argument is the one every request carries, whatever the environment
\* holds; and a request that fails gives an 'AI summary failed: ...' text,
\* the call returning normally.
C15_KeyAndFailures ==
    pc \in {"ai_returned", "ai_raised"} =>
        /\ (NotSet(api_key) /\ NotSet(ai_env.env_key)) =>
              /\ pc = "ai_returned"
              /\ ai_summary_text \in UnavailableTexts
              /\ requests = <<>>
        /\ ~NotSet(api_key) =>
              \A i \in 1..Len(requests) : requests[i].api_key = api_key
        /\ requests # <<>> => pc = "ai_returned"
        /\ RequestFailed => ai_summary_text \in FailedTexts

C15_Witness ==
    /\ pc = "ai_returned"
    /\ api_key = "sk-arg"
    /\ ai_env.env_key = "sk-env"
    /\ Len(requests) = 1
    /\ requests[1].api_key = "sk-arg"
    /\ ai_env.response = RequestRaises("APIConnectionError")
    /\ ai_summary_text = "AI summary failed: Connection error."

\* ------------------------------------------------------------------------
\* Properties of the AI summary within the audit command
\* ------------------------------------------------------------------------
\* the tool's process for the file has been started and has ended
Returned(tool, file) ==
    \E i \in 1..Len(log) :
        log[i].ev = "return" /\ log[i].tool = tool /\ log[i].file = file

\* Slither and Solhint have finished for every discovered file
AllFilesDone ==
    /\ Analysed
    /\ running = {}
    /\ \A i \in 1..Len(sol_files) :
          Returned("slither", sol_files[i]) /\ Returned("solhint", sol_files[i])
    /\ Cardinality({ i \in 1..Len(log) : log[i].ev = "call" })
         = Cardinality({ i \in 1..Len(log) : log[i].ev = "return" })

\* generate_report has been called
ReportCalled == pc = "exit" /\ (crashed = "TypeError" \/ summary # <<>>)

\* without --ai no call and no request; never more than one call; a call
\* comes after both tools are through with every file and before the call
\* of generate_report
AiOnRequestInOrder ==
    /\ ~ai => (ai_calls = 0 /\ requests = <<>> /\ ai_summary_text = "None")
    /\ ai_calls <= 1
    /\ ai_calls = 1 => (AllFilesDone /\ pc \in {"report", "exit"})
    /\ (ai /\ (pc = "report" \/ ReportCalled)) => ai_calls = 1

\* C16 as stated: generate_ai_summary is not called without --ai, and with
\* --ai every run of the command calls it exactly once, after the tools
\* have finished for every file and before generate_report is called.
C16_ExactlyOnceWithAi ==
    /\ AiOnRequestInOrder
    /\ (ai /\ pc = "exit") => ai_calls = 1

\* C16 amended: as above, but the one call is made by the runs that get to
\* the end of the loop over the files; a run with --ai that ends before
\* (no .sol file, or an exception run_solhint lets through) makes no call.
C16_OnceWhenLoopCompletes ==
    /\ AiOnRequestInOrder
    /\ (ai /\ pc = "exit") =>
          IF sol_files = <<>> \/ crashed \in {"AttributeError", "FileNotFoundError"}
          THEN ai_calls = 0
          ELSE ai_calls = 1

C16_Witness ==
    /\ ai
    /\ ReportCalled
    /\ Len(sol_files) = 2
    /\ AllFilesDone
    /\ ai_calls = 1
    /\ Len(requests) = 1

====
